---- MODULE Spec2Model ----
(***************************************************************************)
(* Cloudlette Weather App, scripts/app.js: the weatherIcons lookup table,  *)
(* escapeHtml, fetchJSON (fetch with a timeout), getWeather (geocode ->    *)
(* forecast -> report) and the weatherForm submit handler.                 *)
(*                                                                         *)
(* Text (user input, API strings, markup) is a sequence of tokens: a       *)
(* character of dynamic text is a one-character token, a piece of the      *)
(* handler's own template is one longer token ("<h2>"), so a token "<" in  *)
(* the display is always a markup character that came from data.           *)
(***************************************************************************)
EXTENDS Integers, Sequences, FiniteSets, TLC

VARIABLES
  \* ---- the page: one slot per invocation of getWeather
  st,         \* getWeather's position: "idle", "geocode", "forecast", "done"
  phase,      \* fetchJSON's position: "none", "headers" (await fetch), "body" (await json)
  timer,      \* whether fetchJSON's setTimeout is pending
  respOk,     \* response.ok of the response fetchJSON holds
  elapsed,    \* ms since the running fetchJSON call started
  raw,        \* the text of #cityInput at submit (or the argument of a direct call)
  origin,     \* "none", "submit" (the form's handler) or "direct" (getWeather called as is)
  geo,        \* geocodeData.results[0] once resolved
  requests,   \* the network requests this invocation issued, in order
  lastCall,   \* the last fetchJSON call that settled: what ended it and its result
  outcome,    \* what getWeather settled with
  display,    \* #weatherResult
  lastDone,   \* the invocation that settled last (0: none yet)
  \* ---- steps 4-7 of getWeather and the handler's rendering, on one response
  rstage, rgeo, rbody, rresult, rhtml,
  \* ---- the forecast window of getWeather
  dstage, now, tzNow, tzEnd, window

progVars == <<st, phase, timer, respOk, elapsed, raw, origin, geo, requests, lastCall,
              outcome, display, lastDone>>
repVars == <<rstage, rgeo, rbody, rresult, rhtml>>
dateVars == <<dstage, now, tzNow, tzEnd, window>>
vars == <<progVars, repVars, dateVars>>

----------------------------------------------------------------------------
(* Bounds of the model *)

MaxSubs == 2
TickMs == 2500
MaxElapsed == 7500
MaxDays == 5

Subs == 1..MaxSubs

Min(a, b) == IF a < b THEN a ELSE b

----------------------------------------------------------------------------
(* weatherIcons *)

KnownCodes ==
  {0, 1, 2, 3, 45, 48, 51, 53, 55, 56, 57, 61, 63, 65, 66, 67,
   71, 73, 75, 77, 80, 81, 82, 85, 86, 95, 96, 99}

Info(d, c) == [description |-> d, iconClass |-> c]

weatherIcons ==
  [code \in KnownCodes |->
    CASE code = 0  -> Info("Clear sky", "wi-day-sunny")
      [] code = 1  -> Info("Mainly clear", "wi-day-sunny-overcast")
      [] code = 2  -> Info("Partly cloudy", "wi-day-cloudy")
      [] code = 3  -> Info("Overcast", "wi-cloudy")
      [] code = 45 -> Info("Fog", "wi-fog")
      [] code = 48 -> Info("Depositing rime fog", "wi-fog")
      [] code = 51 -> Info("Light drizzle", "wi-sprinkle")
      [] code = 53 -> Info("Moderate drizzle", "wi-sprinkle")
      [] code = 55 -> Info("Dense drizzle", "wi-showers")
      [] code = 56 -> Info("Light freezing drizzle", "wi-hail")
      [] code = 57 -> Info("Dense freezing drizzle", "wi-hail")
      [] code = 61 -> Info("Slight rain", "wi-sprinkle")
      [] code = 63 -> Info("Moderate rain", "wi-rain")
      [] code = 65 -> Info("Heavy rain", "wi-rain-wind")
      [] code = 66 -> Info("Light freezing rain", "wi-rain-mix")
      [] code = 67 -> Info("Heavy freezing rain", "wi-rain-mix")
      [] code = 71 -> Info("Slight snowfall", "wi-snow")
      [] code = 73 -> Info("Moderate snowfall", "wi-snow")
      [] code = 75 -> Info("Heavy snowfall", "wi-snow")
      [] code = 77 -> Info("Snow grains", "wi-snowflake-cold")
      [] code = 80 -> Info("Slight rain showers", "wi-showers")
      [] code = 81 -> Info("Moderate rain showers", "wi-showers")
      [] code = 82 -> Info("Violent rain showers", "wi-storm-showers")
      [] code = 85 -> Info("Slight snow showers", "wi-snow")
      [] code = 86 -> Info("Heavy snow showers", "wi-snow")
      [] code = 95 -> Info("Thunderstorm", "wi-thunderstorm")
      [] code = 96 -> Info("Thunderstorm with slight hail", "wi-thunderstorm")
      [] OTHER     -> Info("Thunderstorm with heavy hail", "wi-thunderstorm")]

\* the literal after || at the two lookups
UnknownInfo == Info("Unknown condition", "wi-na")

\* a lookup that keeps no fallback: an unknown code resolves to the first entry
LookupNoFallback(code) ==
  IF code \in KnownCodes THEN weatherIcons[code] ELSE weatherIcons[0]

\* weatherIcons[code] || { description: "Unknown condition", iconClass: "wi-na" }
Lookup(code) ==
  IF code \in KnownCodes THEN weatherIcons[code] ELSE UnknownInfo

----------------------------------------------------------------------------
(* escapeHtml and the other conversions to text *)

Special == {"&", "<", ">", "\"", "'"}

EscapeChar(c) ==
  CASE c = "&"  -> "&amp;"
    [] c = "<"  -> "&lt;"
    [] c = ">"  -> "&gt;"
    [] c = "\"" -> "&quot;"
    [] c = "'"  -> "&#039;"
    [] OTHER    -> c

\* text.toString().replace(/[&<>"']/g, m => map[m])
escapeHtml(text) == [k \in 1..Len(text) |-> EscapeChar(text[k])]

IsSpace(c) == c = " "

RECURSIVE TrimStart(_)
TrimStart(s) ==
  IF s # <<>> /\ IsSpace(Head(s)) THEN TrimStart(Tail(s)) ELSE s

RECURSIVE TrimEnd(_)
TrimEnd(s) ==
  IF s # <<>> /\ IsSpace(s[Len(s)]) THEN TrimEnd(SubSeq(s, 1, Len(s) - 1)) ELSE s

\* a trim that is left out
TrimNone(s) == s

\* String.prototype.trim, as the handler applies it to #cityInput's value
Trim(s) == TrimEnd(TrimStart(s))

Digit(n) == <<"0", "1", "2", "3", "4", "5", "6", "7", "8", "9">>[n + 1]

RECURSIVE NatText(_)
NatText(n) == IF n < 10 THEN <<Digit(n)>> ELSE NatText(n \div 10) \o <<Digit(n % 10)>>

\* `${n}` for a number
NumText(n) == IF n < 0 THEN <<"-">> \o NatText(0 - n) ELSE NatText(n)

----------------------------------------------------------------------------
(* Messages *)

EmptyInputMsg == "City name is required."
TimeoutMsg == "Request timed out. Please try again later."
GeocodeFailMsg == "Failed to fetch geocode data. Please try again later."
WeatherFailMsg == "Failed to fetch weather data. Please try again later."
NotFoundMsg == "City not found. Please enter a valid city name."
NoCurrentMsg == "Current weather data not available at the moment."
NoDailyMsg == "Forecast data not available at the moment."
\* the engine's message for a property read of null or undefined
TypeErrorMsg == "TypeError: cannot read properties of undefined"

Err(m) == [kind |-> "error", message |-> m]
Ok(v) == [kind |-> "ok", value |-> v]
NoOutcome == [kind |-> "none"]

----------------------------------------------------------------------------
(* The JSON the two upstream endpoints answer with.  An absent member is a *)
(* has... flag that is FALSE; the parallel daily arrays are as long as one  *)
(* another (the forecast endpoint's documented shape), or `time` is absent. *)

Ymd(d) == <<"2", "0", "2", "5", "-", "0", "3", "-", "0", d>>
Stamp(d, hhmm) == Ymd(d) \o <<"T", hhmm>>

GeoResult(lat, lon, name) == [latitude |-> lat, longitude |-> lon, name |-> name]
Paris == GeoResult(48, 2, <<"P", "a", "r", "i", "s">>)
ParisTX == GeoResult(33, -95, <<"P", "a", "r", "i", "s", " ", "T", "X">>)
Markup == GeoResult(0, 0, <<"<", "b", ">">>)

GeoBody(has, results) == [hasResults |-> has, results |-> results]

Day(date, code, tmax, tmin, rise, set) ==
  [time |-> date, weathercode |-> code, tmax |-> tmax, tmin |-> tmin,
   sunrise |-> rise, sunset |-> set]

DayA == Day(Ymd("1"), 2, 18, 9, Stamp("1", "06:45"), Stamp("1", "18:30"))
DayB == Day(Ymd("2"), 4, 7, -3, Stamp("2", "06:43"), Stamp("2", "18:32"))
DayC == Day(<<"<", "b", ">">>, 99, 21, 12, <<"<", "i", ">">>, Stamp("3", "18:33"))

\* daily: {time: [...], weathercode: [...], ...} holding the days as parallel arrays
DailyOf(days) ==
  [hasTime |-> TRUE,
   time |-> [k \in 1..Len(days) |-> days[k].time],
   weathercode |-> [k \in 1..Len(days) |-> days[k].weathercode],
   temperature_2m_max |-> [k \in 1..Len(days) |-> days[k].tmax],
   temperature_2m_min |-> [k \in 1..Len(days) |-> days[k].tmin],
   sunrise |-> [k \in 1..Len(days) |-> days[k].sunrise],
   sunset |-> [k \in 1..Len(days) |-> days[k].sunset]]

\* daily: {} (no arrays at all)
DailyEmptyObject == [DailyOf(<<>>) EXCEPT !.hasTime = FALSE]

Current(temp, code) == [temperature |-> temp, weathercode |-> code]

ForecastBody(hasCur, cur, hasDaily, daily) ==
  [hasCurrent |-> hasCur, current_weather |-> cur, hasDaily |-> hasDaily, daily |-> daily]

\* what the page's run is fed
RawInputs == {<<>>, <<" ", " ">>, <<" ", "P", " ">>}
GeoBodies ==
  {GeoBody(FALSE, <<>>), GeoBody(TRUE, <<>>), GeoBody(TRUE, <<ParisTX, Paris>>)}
ForecastBodies ==
  {ForecastBody(FALSE, Current(0, 0), TRUE, DailyOf(<<DayA>>)),
   ForecastBody(TRUE, Current(18, 2), FALSE, DailyOf(<<>>)),
   ForecastBody(TRUE, Current(18, 2), TRUE, DailyEmptyObject),
   ForecastBody(TRUE, Current(18, 2), TRUE, DailyOf(<<DayA, DayB>>)),
   ForecastBody(TRUE, Current(-4, 4), TRUE, DailyOf(<<DayC>>))}

----------------------------------------------------------------------------
(* fetchJSON *)

Timeout == 5000

\* a catch block that passes the error on as it came
fetchJSONCatchRaw(errName, errorMessage) == Err(errName)

\* catch (err): the AbortError of the timer's abort, or anything else
fetchJSONCatch(errName, errorMessage) ==
  IF errName = "AbortError" THEN Err(TimeoutMsg) ELSE Err(errorMessage)

\* if (!response.ok) throw new Error(errorMessage)
ResponseRejected(ok) == ~ok

\* the timer callback is due
TimerDue(i) == timer[i] /\ elapsed[i] >= Timeout

----------------------------------------------------------------------------
(* getWeather *)

EncodeChar(c) ==
  CASE c = " "  -> "%20"
    [] c = "<"  -> "%3C"
    [] c = ">"  -> "%3E"
    [] c = "&"  -> "%26"
    [] c = "\"" -> "%22"
    [] OTHER    -> c

encodeURIComponent(s) == [k \in 1..Len(s) |-> EncodeChar(s[k])]

GeocodeRequest(city) == [kind |-> "geocode", name |-> encodeURIComponent(city)]
ForecastRequest(first) ==
  [kind |-> "forecast", latitude |-> first.latitude, longitude |-> first.longitude]

ErrorMessageOf(stage) == IF stage = "geocode" THEN GeocodeFailMsg ELSE WeatherFailMsg

\* if (!city)
CityRejected(city) == city = <<>>

\* a check of `results` that misses the empty list
GeocodeStepAbsentOnly(data) ==
  IF ~data.hasResults THEN Err(NotFoundMsg)
  ELSE IF Len(data.results) = 0 THEN Err(TypeErrorMsg)
  ELSE Ok(data.results[1])

\* if (!geocodeData.results || geocodeData.results.length === 0) throw ...;
\* const { latitude, longitude, name } = geocodeData.results[0]
GeocodeStep(data) ==
  IF ~data.hasResults \/ Len(data.results) = 0 THEN Err(NotFoundMsg)
  ELSE Ok(data.results[1])

\* one element of weatherData.daily.time.map((date, index) => ...)
ForecastDay(daily, index) ==
  [date |-> daily.time[index],
   maxTemp |-> daily.temperature_2m_max[index],
   minTemp |-> daily.temperature_2m_min[index],
   sunrise |-> daily.sunrise[index],
   sunset |-> daily.sunset[index],
   weatherDescription |-> Lookup(daily.weathercode[index]).description,
   iconClass |-> Lookup(daily.weathercode[index]).iconClass]

\* a map that leaves today's entry out
ForecastArraySkipFirst(daily) ==
  [k \in 1..(Len(daily.time) - 1) |-> ForecastDay(daily, k + 1)]

\* weatherData.daily.time.map(...)
ForecastArray(daily) == [k \in 1..Len(daily.time) |-> ForecastDay(daily, k)]

Report(first, data) ==
  [city |-> first.name,
   currentWeather |->
     [temperature |-> data.current_weather.temperature,
      weatherDescription |-> Lookup(data.current_weather.weathercode).description,
      iconClass |-> Lookup(data.current_weather.weathercode).iconClass],
   forecast |-> ForecastArray(data.daily)]

\* a validation that misses the current block: the destructuring then throws
ForecastStepNoCurrentCheck(first, data) ==
  IF ~data.hasCurrent \/ ~data.hasDaily \/ ~data.daily.hasTime THEN Err(TypeErrorMsg)
  ELSE [kind |-> "report", report |-> Report(first, data)]

\* steps 4 to 7: validate, resolve the codes, zip the daily arrays, return
ForecastStep(first, data) ==
  IF ~data.hasCurrent THEN Err(NoCurrentMsg)
  ELSE IF ~data.hasDaily THEN Err(NoDailyMsg)
  ELSE IF ~data.daily.hasTime THEN Err(TypeErrorMsg)
  ELSE [kind |-> "report", report |-> Report(first, data)]

\* catch (error) { throw new Error(error.message); }
Rethrow(e) == Err(e.message)

----------------------------------------------------------------------------
(* The submit handler's rendering *)

\* new Date(s).toLocaleTimeString([], {hour: '2-digit', minute: '2-digit'}):
\* the time of day of a timestamp, or the text of an invalid date
LocaleTime(s) ==
  IF Len(s) = 12 /\ s[11] = "T" /\ \A k \in 1..Len(s) : s[k] \notin Special
  THEN <<s[12]>> ELSE <<"Invalid Date">>

\* the template of one forecast day
DayHtml(day) ==
  <<"<div class=\"forecast-day\"><h4>">> \o day.date
  \o <<"</h4><i class=\"wi ", day.iconClass, "\" style=\"font-size: 48px;\"></i><p>Max: ">>
  \o NumText(day.maxTemp) \o <<"°C, Min: ">> \o NumText(day.minTemp)
  \o <<"°C</p><p>Sunrise: ">> \o LocaleTime(day.sunrise)
  \o <<"</p><p>Sunset: ">> \o LocaleTime(day.sunset)
  \o <<"</p><p>", day.weatherDescription, "</p></div>">>

RECURSIVE DaysHtml(_)
DaysHtml(days) == IF days = <<>> THEN <<>> ELSE DayHtml(Head(days)) \o DaysHtml(Tail(days))

\* the markup the handler builds from a report
ReportHtml(report) ==
  <<"<h2>Weather in ">> \o escapeHtml(report.city)
  \o <<"</h2><div class=\"current-weather\"><i class=\"wi ", report.currentWeather.iconClass,
       "\" style=\"font-size: 80px;\"></i><p>Temperature: ">>
  \o NumText(report.currentWeather.temperature)
  \o <<"°C</p><p>Conditions: ", report.currentWeather.weatherDescription,
       "</p></div><h3>5-Day Forecast</h3><div class=\"forecast-container\">">>
  \o DaysHtml(report.forecast) \o <<"</div>">>

Blank == [mode |-> "text", content |-> <<>>]
Loading == [mode |-> "text", content |-> <<"Loading...">>]

\* what the handler writes once getWeather has settled: innerHTML = html, or
\* textContent = `Error: ${error.message}`
Shown(out) ==
  IF out.kind = "report" THEN [mode |-> "html", content |-> ReportHtml(out.report)]
  ELSE [mode |-> "text", content |-> <<"Error: ", out.message>>]

\* a handler that drops the result of any but the newest submission
DisplayAfterFenced(i, out) ==
  IF \E j \in Subs : j > i /\ origin[j] = "submit" THEN display ELSE Shown(out)

\* the display once invocation i has settled with out
DisplayAfter(i, out) == IF origin[i] = "submit" THEN Shown(out) ELSE display

----------------------------------------------------------------------------
(* The page: submissions, the network, the clock *)

NoCall == [cause |-> "none"]
NoGeo == GeoResult(0, 0, <<>>)

InitProg ==
  /\ st = [i \in Subs |-> "idle"]
  /\ phase = [i \in Subs |-> "none"]
  /\ timer = [i \in Subs |-> FALSE]
  /\ respOk = [i \in Subs |-> FALSE]
  /\ elapsed = [i \in Subs |-> 0]
  /\ raw = [i \in Subs |-> <<>>]
  /\ origin = [i \in Subs |-> "none"]
  /\ geo = [i \in Subs |-> NoGeo]
  /\ requests = [i \in Subs |-> <<>>]
  /\ lastCall = [i \in Subs |-> NoCall]
  /\ outcome = [i \in Subs |-> NoOutcome]
  /\ display = Blank
  /\ lastDone = 0

Settled(out) == IF out.kind = "error" THEN Rethrow(out) ELSE out

\* getWeather settles with out (rethrown by its catch when an error), and the
\* handler's continuation, if it was the caller, writes the display
Settle(i, out) ==
  /\ st' = [st EXCEPT ![i] = "done"]
  /\ phase' = [phase EXCEPT ![i] = "none"]
  /\ timer' = [timer EXCEPT ![i] = FALSE]
  /\ respOk' = [respOk EXCEPT ![i] = FALSE]
  /\ elapsed' = [elapsed EXCEPT ![i] = 0]
  /\ outcome' = [outcome EXCEPT ![i] = Settled(out)]
  /\ lastDone' = i
  /\ display' = DisplayAfter(i, Settled(out))

\* fetchJSON(url, errorMessage) is entered: the timer is set, the request goes out
StartFetch(i, stage, request) ==
  /\ st' = [st EXCEPT ![i] = stage]
  /\ phase' = [phase EXCEPT ![i] = "headers"]
  /\ timer' = [timer EXCEPT ![i] = TRUE]
  /\ respOk' = [respOk EXCEPT ![i] = FALSE]
  /\ elapsed' = [elapsed EXCEPT ![i] = 0]
  /\ requests' = [requests EXCEPT ![i] = Append(@, request)]

Called(stage, cause, httpOk, result) ==
  [stage |-> stage, cause |-> cause, httpOk |-> httpOk, result |-> result]

\* getWeather(city) up to its first await
Enter(i, city, text, by) ==
  /\ st[i] = "idle"
  /\ \A j \in 1..(i - 1) : st[j] # "idle"
  /\ raw' = [raw EXCEPT ![i] = text]
  /\ origin' = [origin EXCEPT ![i] = by]
  /\ IF CityRejected(city)
     THEN /\ st' = [st EXCEPT ![i] = "done"]
          /\ outcome' = [outcome EXCEPT ![i] = Err(EmptyInputMsg)]
          /\ lastDone' = i
          /\ display' = IF by = "submit" THEN Shown(Err(EmptyInputMsg)) ELSE display
          /\ UNCHANGED <<phase, timer, respOk, elapsed, requests>>
     ELSE /\ StartFetch(i, "geocode", GeocodeRequest(city))
          /\ display' = IF by = "submit" THEN Loading ELSE display
          /\ UNCHANGED <<outcome, lastDone>>
  /\ UNCHANGED <<geo, lastCall, repVars, dateVars>>

\* the form is submitted with `text` in #cityInput
Submit(i, text) == Enter(i, Trim(text), text, "submit")

\* getWeather is called with `text` as it is
Call(i, text) == Enter(i, text, text, "direct")

\* fetch rejects: the network failed
NetworkError(i) ==
  /\ phase[i] = "headers"
  /\ LET res == fetchJSONCatch("TypeError", ErrorMessageOf(st[i])) IN
       /\ lastCall' = [lastCall EXCEPT ![i] = Called(st[i], "network", FALSE, res)]
       /\ Settle(i, res)
  /\ UNCHANGED <<raw, origin, geo, requests, repVars, dateVars>>

\* the timer fires: controller.abort() rejects the fetch with an AbortError
TimerFires(i) ==
  /\ phase[i] # "none"
  /\ TimerDue(i)
  /\ LET res == fetchJSONCatch("AbortError", ErrorMessageOf(st[i])) IN
       /\ lastCall' = [lastCall EXCEPT ![i] = Called(st[i], "timeout", FALSE, res)]
       /\ Settle(i, res)
  /\ UNCHANGED <<raw, origin, geo, requests, repVars, dateVars>>

\* fetch resolves with the response's head: clearTimeout, then the status check
ResponseArrives(i, ok) ==
  /\ phase[i] = "headers"
  /\ IF ResponseRejected(ok)
     THEN LET res == fetchJSONCatch("Error", ErrorMessageOf(st[i])) IN
            /\ lastCall' = [lastCall EXCEPT ![i] = Called(st[i], "status", ok, res)]
            /\ Settle(i, res)
     ELSE /\ phase' = [phase EXCEPT ![i] = "body"]
          /\ timer' = [timer EXCEPT ![i] = FALSE]
          /\ respOk' = [respOk EXCEPT ![i] = ok]
          /\ UNCHANGED <<st, elapsed, lastCall, outcome, lastDone, display>>
  /\ UNCHANGED <<raw, origin, geo, requests, repVars, dateVars>>

InBody(i) == phase[i] = "body"

\* response.json() rejects: the body is no JSON (or its stream failed)
BodyFails(i) ==
  /\ InBody(i)
  /\ LET res == fetchJSONCatch("SyntaxError", ErrorMessageOf(st[i])) IN
       /\ lastCall' = [lastCall EXCEPT ![i] = Called(st[i], "decode", respOk[i], res)]
       /\ Settle(i, res)
  /\ UNCHANGED <<raw, origin, geo, requests, repVars, dateVars>>

\* response.json() resolves with the geocoding body; getWeather goes on to the
\* forecast request, or throws
GeocodeArrives(i, data) ==
  /\ InBody(i) /\ st[i] = "geocode"
  /\ lastCall' = [lastCall EXCEPT ![i] = Called("geocode", "ok", respOk[i], Ok(data))]
  /\ LET step == GeocodeStep(data) IN
       IF step.kind = "error"
       THEN /\ Settle(i, step)
            /\ UNCHANGED <<geo, requests>>
       ELSE /\ geo' = [geo EXCEPT ![i] = step.value]
            /\ StartFetch(i, "forecast", ForecastRequest(step.value))
            /\ UNCHANGED <<outcome, lastDone, display>>
  /\ UNCHANGED <<raw, origin, repVars, dateVars>>

\* response.json() resolves with the forecast body; getWeather returns or throws
ForecastArrives(i, data) ==
  /\ InBody(i) /\ st[i] = "forecast"
  /\ lastCall' = [lastCall EXCEPT ![i] = Called("forecast", "ok", respOk[i], Ok(data))]
  /\ Settle(i, ForecastStep(geo[i], data))
  /\ UNCHANGED <<raw, origin, geo, requests, repVars, dateVars>>

Active(i) == phase[i] # "none"

\* time passes for every call in flight; a due timer fires before time goes on
Tick ==
  /\ \A i \in Subs : ~TimerDue(i)
  /\ \E i \in Subs : Active(i) /\ elapsed[i] < MaxElapsed
  /\ elapsed' = [i \in Subs |->
       IF ~Active(i) THEN elapsed[i]
       ELSE IF timer[i] THEN Min(elapsed[i] + TickMs, Timeout)
       ELSE Min(elapsed[i] + TickMs, MaxElapsed)]
  /\ UNCHANGED <<st, phase, timer, respOk, raw, origin, geo, requests, lastCall, outcome,
                 display, lastDone, repVars, dateVars>>

----------------------------------------------------------------------------
(* Steps 4-7 of getWeather and the handler's rendering, on one forecast     *)
(* response out of a wide set                                               *)

DayPool == {DayA, DayB, DayC}
DaySeqs == UNION {[1..k -> DayPool] : k \in 0..MaxDays}
CodePool == -1..100
GeoPool == {Paris, Markup}
AbsentCurrent == Current(0, 0)
AbsentDaily == DailyOf(<<>>)

WideForecastBodies ==
  {ForecastBody(TRUE, Current(18, c), TRUE, DailyOf(ds)) :
     c \in CodePool, ds \in {<<>>, <<DayA, DayB>>}}
  \cup {ForecastBody(TRUE, c, TRUE, DailyOf(ds)) :
     c \in {Current(18, 2), Current(-4, 4)}, ds \in DaySeqs}
  \cup {ForecastBody(FALSE, AbsentCurrent, TRUE, d) :
     d \in {DailyEmptyObject} \cup {DailyOf(ds) : ds \in {<<>>, <<DayA>>, <<DayC, DayB>>}}}
  \cup {ForecastBody(hc, IF hc THEN Current(18, 2) ELSE AbsentCurrent, FALSE, AbsentDaily) :
     hc \in BOOLEAN}
  \cup {ForecastBody(TRUE, Current(18, 2), TRUE, DailyEmptyObject)}

InitReport ==
  /\ rstage = "response"
  /\ rgeo \in GeoPool
  /\ rbody \in WideForecastBodies
  /\ rresult = NoOutcome
  /\ rhtml = Loading

\* getWeather from the forecast body on: it returns a report or throws
Process ==
  /\ rstage = "response"
  /\ rresult' = Settled(ForecastStep(rgeo, rbody))
  /\ rstage' = "settled"
  /\ UNCHANGED <<rgeo, rbody, rhtml, progVars, dateVars>>

\* the handler writes the result area
Render ==
  /\ rstage = "settled"
  /\ rhtml' = Shown(rresult)
  /\ rstage' = "shown"
  /\ UNCHANGED <<rgeo, rbody, rresult, progVars, dateVars>>

----------------------------------------------------------------------------
(* The forecast window.  Time is in hours since 2025-01-01T00:00Z; a zone   *)
(* is its offset from UTC in hours (local = UTC + zone).                    *)

ForecastSpan == 4

MonthLen == <<31, 28, 31, 30, 31, 30, 31, 31, 30, 31, 30, 31>>

RECURSIVE Carry(_, _)
\* the calendar's carry of a day-of-month past the month's end
Carry(m, d) == IF d > MonthLen[m] THEN Carry(m + 1, d - MonthLen[m]) ELSE <<m, d>>

\* day 0 is January 1st
MonthDay(n) == Carry(1, n + 1)

RECURSIVE DaysBefore(_)
DaysBefore(m) == IF m = 1 THEN 0 ELSE DaysBefore(m - 1) + MonthLen[m - 1]

DayIndex(md) == DaysBefore(md[1]) + md[2] - 1

\* YYYY-MM-DD of a day
IsoDate(n) == <<2025, MonthDay(n)[1], MonthDay(n)[2]>>

\* date.toISOString().split("T")[0]: the calendar date in UTC
UtcDate(t) == IsoDate(t \div 24)

\* the calendar day the wall clock of the zone shows
LocalDay(t, zone) == (t + zone) \div 24

\* endDateObj.setDate(today.getDate() + 4): the local date moves on, the local
\* time of day stays, and the instant is that wall-clock time in the zone then
SetDatePlus(t, zone, zoneThen, days) ==
  LET md == MonthDay(LocalDay(t, zone))
      then == DayIndex(Carry(md[1], md[2] + days))
  IN then * 24 + ((t + zone) % 24) - zoneThen

\* startDate and endDate of the forecast request
DateWindow(t, zone, zoneThen) ==
  <<UtcDate(t), UtcDate(SetDatePlus(t, zone, zoneThen, ForecastSpan))>>

Instants == {d * 24 + h : d \in 56..59, h \in 0..23}
Zones == {-5, 0, 9}
\* daylight saving may start or end inside the window
ZoneShifts == {-1, 0, 1}

InitDate ==
  /\ dstage = "clock"
  /\ now \in Instants
  /\ tzNow \in Zones
  /\ tzEnd \in {tzNow + s : s \in ZoneShifts}
  /\ window = <<IsoDate(0), IsoDate(0)>>

\* lines 127-131 of getWeather run at instant `now`
ComputeWindow ==
  /\ dstage = "clock"
  /\ window' = DateWindow(now, tzNow, tzEnd)
  /\ dstage' = "computed"
  /\ UNCHANGED <<now, tzNow, tzEnd, progVars, repVars>>

----------------------------------------------------------------------------
(* Specifications *)

RepIdle ==
  /\ rstage = "off" /\ rgeo = NoGeo
  /\ rbody = ForecastBody(FALSE, AbsentCurrent, FALSE, AbsentDaily)
  /\ rresult = NoOutcome /\ rhtml = Blank

DateIdle ==
  /\ dstage = "off" /\ now = 0 /\ tzNow = 0 /\ tzEnd = 0
  /\ window = <<IsoDate(0), IsoDate(0)>>

Init == InitProg /\ RepIdle /\ DateIdle

Next ==
  \/ \E i \in Subs, text \in RawInputs : Submit(i, text)
  \/ \E i \in Subs : NetworkError(i)
  \/ \E i \in Subs : TimerFires(i)
  \/ \E i \in Subs, ok \in BOOLEAN : ResponseArrives(i, ok)
  \/ \E i \in Subs : BodyFails(i)
  \/ \E i \in Subs, data \in GeoBodies : GeocodeArrives(i, data)
  \/ \E i \in Subs, data \in ForecastBodies : ForecastArrives(i, data)
  \/ Tick

\* the page: every getWeather is the submit handler's
Spec == Init /\ [][Next]_vars

NextAggregator ==
  \/ Next
  \/ \E i \in Subs, text \in RawInputs : Call(i, text)

\* getWeather as a unit: called by the handler or with any string as it is
SpecAggregator == Init /\ [][NextAggregator]_vars

NextReport == Process \/ Render

\* getWeather's processing and the handler's rendering of one forecast response
InitR == InitProg /\ DateIdle /\ InitReport
SpecReport == InitR /\ [][NextReport]_vars

NextDate == ComputeWindow

\* getWeather's forecast window at one instant in one zone
InitD == InitProg /\ RepIdle /\ InitDate
SpecDate == InitD /\ [][NextDate]_vars

----------------------------------------------------------------------------
(* Claims *)

AllSpaces(s) == \A k \in 1..Len(s) : IsSpace(s[k])
Started(i) == st[i] # "idle"

\* C1 as stated: for every city string that is empty or only whitespace,
\* getWeather fails with "City name is required." and issues no request.
C1_AsStated ==
  \A i \in Subs :
    Started(i) /\ AllSpaces(raw[i]) =>
      outcome[i] = Err(EmptyInputMsg) /\ requests[i] = <<>>

\* C1 amended: an empty or whitespace-only text submitted through the form is
\* trimmed by the handler, so getWeather fails with "City name is required."
\* and no request goes out; getWeather itself rejects only the empty string,
\* and called with a non-empty whitespace-only string it sends the geocoding
\* request.
C1_EmptyInput ==
  \A i \in Subs :
    /\ (origin[i] = "submit" /\ AllSpaces(raw[i])) \/ (origin[i] = "direct" /\ raw[i] = <<>>)
         => st[i] = "done" /\ outcome[i] = Err(EmptyInputMsg) /\ requests[i] = <<>>
    /\ origin[i] = "direct" /\ AllSpaces(raw[i]) /\ raw[i] # <<>>
         => requests[i] # <<>> /\ requests[i][1] = GeocodeRequest(raw[i])

C1_Witness ==
  \E i, j \in Subs :
    /\ origin[i] = "submit" /\ raw[i] = <<" ", " ">> /\ outcome[i] = Err(EmptyInputMsg)
    /\ origin[j] = "direct" /\ raw[j] = <<" ", " ">> /\ requests[j] # <<>>

\* C2 as stated: a fetchJSON call whose response (head and JSON body) is not
\* complete when the timeout has elapsed is aborted and fails with the timeout
\* message, which is not the caller's message: no call is pending past the timeout.
C2_NeverPendingPastTimeout ==
  \A i \in Subs :
    /\ Active(i) => elapsed[i] <= Timeout
    /\ lastCall[i].cause = "timeout" =>
         /\ lastCall[i].result = Err(TimeoutMsg)
         /\ TimeoutMsg # ErrorMessageOf(lastCall[i].stage)

\* the fetchJSON calls invocation i has entered
CallsStarted(i) ==
  CASE st[i] = "idle" -> 0
    [] st[i] = "geocode" -> 1
    [] st[i] = "forecast" -> 2
    [] OTHER -> IF lastCall[i].cause = "none" THEN 0
                ELSE IF lastCall[i].stage = "geocode" THEN 1 ELSE 2

\* C3: a fetchJSON call that ends without the timer's abort fails, on a network
\* error, a non-success status or an undecodable body, with exactly the caller's
\* message; every call sends one request and no more; a call returns a body only
\* when the status was a success.
C3_FetchFailures ==
  \A i \in Subs :
    /\ Len(requests[i]) = CallsStarted(i)
    /\ lastCall[i].cause \in {"network", "status", "decode"} =>
         lastCall[i].result = Err(ErrorMessageOf(lastCall[i].stage))
    /\ lastCall[i].cause # "none" /\ lastCall[i].result.kind = "ok" =>
         lastCall[i].httpOk /\ lastCall[i].cause = "ok"
    /\ lastCall[i].cause \in {"network", "status", "decode"} /\ st[i] = "done" =>
         outcome[i] = Err(ErrorMessageOf(lastCall[i].stage))

C3_Witness ==
  \E i, j \in Subs :
    /\ lastCall[i].cause = "decode" /\ lastCall[i].stage = "forecast"
    /\ lastCall[j].cause = "status" /\ lastCall[j].stage = "geocode"

NoResults(data) == ~data.hasResults \/ data.results = <<>>

\* C4: when the geocoding body has no `results` or an empty one, getWeather fails
\* with "City not found. ...", sends no forecast request and returns no report.
C4_NotFound ==
  \A i \in Subs :
    lastCall[i].cause = "ok" /\ lastCall[i].stage = "geocode"
      /\ NoResults(lastCall[i].result.value) =>
        /\ st[i] = "done"
        /\ outcome[i] = Err(NotFoundMsg)
        /\ \A k \in 1..Len(requests[i]) : requests[i][k].kind # "forecast"
        /\ origin[i] = "submit" /\ lastDone = i =>
             display \in {Loading, Shown(Err(NotFoundMsg))}

C4_Witness ==
  \E i, j \in Subs :
    /\ lastCall[i].cause = "ok" /\ lastCall[i].stage = "geocode"
    /\ lastCall[i].result.value = GeoBody(TRUE, <<>>) /\ outcome[i] = Err(NotFoundMsg)
    /\ lastCall[j].cause = "ok" /\ lastCall[j].stage = "geocode"
    /\ lastCall[j].result.value = GeoBody(FALSE, <<>>) /\ outcome[j] = Err(NotFoundMsg)

\* C5: a forecast body without `current_weather` makes getWeather fail with
\* IncompleteData whatever `daily` is (there, absent or without its arrays); so
\* does one with `current_weather` and without `daily`; no report is returned
\* and none is shown.
C5_IncompleteData ==
  rstage # "response" =>
    /\ ~rbody.hasCurrent => rresult = Err(NoCurrentMsg)
    /\ rbody.hasCurrent /\ ~rbody.hasDaily => rresult = Err(NoDailyMsg)
    /\ (~rbody.hasCurrent \/ ~rbody.hasDaily) /\ rstage = "shown" => rhtml.mode = "text"

C5_Witness ==
  /\ rstage = "shown"
  /\ ~rbody.hasCurrent /\ rbody.hasDaily /\ rbody.daily = DailyEmptyObject
  /\ rresult = Err(NoCurrentMsg)

WellFormed(body) == body.hasCurrent /\ body.hasDaily /\ body.daily.hasTime

\* C6: for a well-formed forecast body whose daily arrays have n entries (n = 5
\* among them), the report's forecast has n entries in the same order, the i-th
\* with the date daily.time[i] and the temperatures, sunrise, sunset and resolved
\* weather code of index i.
C6_ForecastZip ==
  rstage # "response" /\ WellFormed(rbody) =>
    /\ rresult.kind = "report"
    /\ Len(rresult.report.forecast) = Len(rbody.daily.time)
    /\ \A k \in 1..Len(rbody.daily.time) :
         LET day == rresult.report.forecast[k] IN
           /\ day.date = rbody.daily.time[k]
           /\ day.maxTemp = rbody.daily.temperature_2m_max[k]
           /\ day.minTemp = rbody.daily.temperature_2m_min[k]
           /\ day.sunrise = rbody.daily.sunrise[k]
           /\ day.sunset = rbody.daily.sunset[k]
           /\ rbody.daily.weathercode[k] \in KnownCodes =>
                /\ day.weatherDescription = weatherIcons[rbody.daily.weathercode[k]].description
                /\ day.iconClass = weatherIcons[rbody.daily.weathercode[k]].iconClass

C6_Witness ==
  /\ rstage = "settled" /\ WellFormed(rbody)
  /\ Len(rbody.daily.time) = 5
  /\ rbody.daily.time[1] # rbody.daily.time[2]
  /\ rbody.daily.time[4] # rbody.daily.time[5]
  /\ Len(rresult.report.forecast) = 5

\* the report's resolved conditions for the codes outside the table are `info`
UnknownCodesResolveTo(info) ==
  /\ rbody.current_weather.weathercode \notin KnownCodes =>
       /\ rresult.report.currentWeather.weatherDescription = info.description
       /\ rresult.report.currentWeather.iconClass = info.iconClass
  /\ \A k \in 1..Len(rbody.daily.time) :
       rbody.daily.weathercode[k] \notin KnownCodes =>
         /\ rresult.report.forecast[k].weatherDescription = info.description
         /\ rresult.report.forecast[k].iconClass = info.iconClass

\* C7 as stated: a code outside the table, current or daily, resolves to
\* {description: "Unknown condition", iconId: "not-available"} and getWeather
\* does not fail on it.
C7_AsStated ==
  rstage # "response" /\ WellFormed(rbody) =>
    /\ rresult.kind = "report"
    /\ UnknownCodesResolveTo(Info("Unknown condition", "not-available"))

\* C7 amended: a code outside the table, current or daily, resolves to
\* {description: "Unknown condition", iconClass: "wi-na"} and getWeather does
\* not fail on it.
C7_UnknownCode ==
  rstage # "response" /\ WellFormed(rbody) =>
    /\ rresult.kind = "report"
    /\ UnknownCodesResolveTo(Info("Unknown condition", "wi-na"))

C7_Witness ==
  /\ rstage = "settled" /\ WellFormed(rbody)
  /\ rbody.current_weather.weathercode = 100
  /\ \E k \in 1..Len(rbody.daily.time) : rbody.daily.weathercode[k] = 4
  /\ rresult.kind = "report"

\* C8 as stated: every user- or API-derived string in the markup the handler
\* writes has gone through escapeHtml, so no markup character of the data
\* reaches the result area; an error is written as plain text.
C8_NoRawMarkup ==
  rstage = "shown" =>
    /\ rresult.kind = "error" => rhtml.mode = "text"
    /\ rhtml.mode = "html" =>
         \A k \in 1..Len(rhtml.content) : rhtml.content[k] \notin Special

\* C9 as stated: at every instant and in every zone, daylight saving changes
\* included, start_date is the local calendar date and end_date that date plus
\* four days.
C9_LocalFiveDayWindow ==
  dstage = "computed" =>
    /\ window[1] = IsoDate(LocalDay(now, tzNow))
    /\ window[2] = IsoDate(LocalDay(now, tzNow) + ForecastSpan)

InFlight(i) == st[i] \in {"geocode", "forecast"}

\* the result area holds nothing, "Loading...", or the whole outcome of the
\* invocation that settled last
DisplayWhole ==
  \/ display = Blank /\ lastDone = 0
  \/ display = Loading
  \/ lastDone # 0 /\ display = Shown(outcome[lastDone])

\* with nothing in flight the result area shows the outcome that arrived last
DisplayLast ==
  (\A i \in Subs : ~InFlight(i)) /\ lastDone # 0 =>
    display = Shown(outcome[lastDone])

\* a submission that goes to the network leaves "Loading..." in the result area
StartSetsLoading ==
  \A i \in Subs : st[i] = "idle" /\ InFlight(i)' => display' = Loading

\* C10: overlapping submissions are not fenced: each sets "Loading..." when it
\* starts, each completion overwrites the result area as a whole, and once all
\* have completed the area shows the outcome of the one that completed last,
\* whichever was submitted last; it never mixes two outcomes.
C10_LastResponseWins ==
  [](DisplayWhole /\ DisplayLast) /\ [][StartSetsLoading]_vars

C10_Witness ==
  /\ MaxSubs >= 2
  /\ st[1] = "done" /\ st[2] = "done"
  /\ lastDone = 1
  /\ lastCall[1].cause # "none" /\ lastCall[2].cause # "none"
  /\ outcome[1].kind = "report" /\ outcome[2].kind = "error"
  /\ (\A i \in Subs : i > 2 => st[i] = "idle")
  /\ display = Shown(outcome[1])

====
